---- MODULE Spec2Model ----
(***************************************************************************)
(* Model of src/src/parse/literal.c: the literal recognizers of the        *)
(* Fortran front end (base-digit engine, unsigned, BOZ, Hollerith,         *)
(* character, logical, number, complex, the dispatcher, clone and cleanup).*)
(*                                                                         *)
(* Text is a sequence of one-character strings; the control characters     *)
(* are named ("NUL", "CR", "LF", ...).  A C pointer is a pair (buffer,     *)
(* offset); ptr[i] is At(buf, p + i).  uint64_t and unsigned values are    *)
(* little-endian sequences of 16-bit limbs, so that the 64-bit and 32-bit  *)
(* wrap-around of the C arithmetic is computed exactly.                    *)
(***************************************************************************)
EXTENDS Integers, Sequences, FiniteSets, TLC

VARIABLES
    text,     \* the source buffer the cursor points into (with its NUL and what follows it)
    src,      \* the sparse_t collaborator: [contiguous, parent]
    alloc,    \* whether the next string allocation succeeds
    pc,       \* "ready" before the call, "done" after it
    call,     \* the public operation that was called
    ret,      \* the value the call returned
    out,      \* the output argument (*string, *value, *literal)
    out0,     \* the output argument as it was before the call
    diags,    \* the diagnostics emitted through sparse_error / sparse_warning
    reads,    \* the greatest index of text the call read (-1: none)
    rets,     \* the eight sub-recognizers' returns on text, each run on its own
    live,     \* the owned buffers that are allocated and not freed
    frees,    \* how often each buffer was freed
    allocs,   \* the number of buffers allocated so far
    lits      \* the literal values the caller holds (original and clones)

vars == <<text, src, alloc, pc, call, ret, out, out0, diags, reads, rets,
          live, frees, allocs, lits>>

----------------------------------------------------------------------------
(* Characters *)

NUL == "NUL"
CR == "CR"
LF == "LF"
SQ == "'"
DQ == "DQ"
BSL == "BSL"
OOB == "OOB"      \* what a read outside the modelled memory yields

Range(s) == {s[i] : i \in 1..Len(s)}

DecDigits == <<"0", "1", "2", "3", "4", "5", "6", "7", "8", "9">>
UpperLetters == <<"A", "B", "C", "D", "E", "F", "G", "H", "I", "J", "K", "L", "M",
                  "N", "O", "P", "Q", "R", "S", "T", "U", "V", "W", "X", "Y", "Z">>
LowerLetters == <<"a", "b", "c", "d", "e", "f", "g", "h", "i", "j", "k", "l", "m",
                  "n", "o", "p", "q", "r", "s", "t", "u", "v", "w", "x", "y", "z">>

IndexOf(s, c) == CHOOSE i \in 1..Len(s) : s[i] = c

isdigit(c) == c \in Range(DecDigits)
isalnum(c) == isdigit(c) \/ c \in Range(UpperLetters) \/ c \in Range(LowerLetters)
toupper(c) == IF c \in Range(LowerLetters) THEN UpperLetters[IndexOf(LowerLetters, c)] ELSE c

\* ptr[i] for the pointer (buf, 0); a read past the modelled memory yields OOB
At(buf, i) == IF i + 1 <= Len(buf) THEN buf[i + 1] ELSE OOB

Max(a, b) == IF a >= b THEN a ELSE b
Min(a, b) == IF a <= b THEN a ELSE b

----------------------------------------------------------------------------
(* Fixed-width unsigned arithmetic on 16-bit limbs, least significant first *)

LimbBase == 2 ^ 16
Limbs(bits) == bits \div 16
UInt64Bits == 64      \* uint64_t
UnsignedBits == 32    \* unsigned

Zero(bits) == [i \in 1..Limbs(bits) |-> 0]

RECURSIVE MulAddFrom(_, _, _, _)
MulAddFrom(v, m, carry, i) ==
    IF i > Len(v) THEN <<>>
    ELSE LET t == v[i] * m + carry
         IN  <<t % LimbBase>> \o MulAddFrom(v, m, t \div LimbBase, i + 1)

\* (v * m) + d in the width of v: the carry out of the top limb is lost
MulAdd(v, m, d) == MulAddFrom(v, m, d, 1)

RECURSIVE DivFrom(_, _, _, _)
DivFrom(v, b, i, r) ==
    IF i = 0 THEN [q |-> <<>>, r |-> r]
    ELSE LET cur == r * LimbBase + v[i]
             rest == DivFrom(v, b, i - 1, cur % b)
         IN  [q |-> Append(rest.q, cur \div b), r |-> rest.r]

\* v / b and v % b
DivMod(v, b) == DivFrom(v, b, Len(v), 0)

\* (unsigned)u : the low limbs
Truncate(u, bits) == SubSeq(u, 1, Limbs(bits))
\* (uint64_t)v : zero extension
Extend(v, bits) == v \o [i \in 1..(Limbs(bits) - Len(v)) |-> 0]

\* an unsigned constant of the program (8, 4, ...)
Unsigned(n) == MulAdd(Zero(UnsignedBits), 1, n)

\* the value of a limb sequence as a number, for values that are small
RECURSIVE ToNat(_)
ToNat(v) == IF v = <<>> THEN 0 ELSE v[1] + LimbBase * ToNat(Tail(v))

----------------------------------------------------------------------------
(* The collaborators: diagnostics, source positions, string buffers *)

NoDiags == <<>>
sparse_error(msg) == <<[level |-> "error", msg |-> msg]>>
sparse_warning(msg) == <<[level |-> "warning", msg |-> msg]>>

\* true iff no whitespace lies between ptr and ptr + i in the expanded text
sparse_sequential(s, buf, p, i) == s.contiguous

NullPtr == [null |-> TRUE]
\* the pointer into the original text for a position, or null; the original
\* text is the cursor text itself here
sparse_parent_pointer(s, buf, q) ==
    IF s.parent THEN [null |-> FALSE, buf |-> buf, p |-> q] ELSE NullPtr

\* a string_t: base is the buffer's identity (0 is NULL)
STRING_EMPTY == [base |-> 0, size |-> 0, bytes |-> <<>>]
string_empty(s) == s.base = 0
\* string_create(NULL, size): a fresh buffer id of size bytes, or empty on failure
string_create(size, ok, id) ==
    IF ok THEN [base |-> id, size |-> size, bytes |-> [k \in 1..size |-> "?"]]
    ELSE STRING_EMPTY
\* string_copy: a fresh buffer with the same bytes, or empty on failure
string_copy(s, ok, id) ==
    IF ok /\ ~string_empty(s) THEN [base |-> id, size |-> s.size, bytes |-> s.bytes]
    ELSE STRING_EMPTY

str_ref(q, len) == [start |-> q, len |-> len]

----------------------------------------------------------------------------
(* Base-digit engine and parse_unsigned *)

\* the digit value v against the base
digit_below(v, base) == IF v >= base THEN [ok |-> FALSE, v |-> 0] ELSE [ok |-> TRUE, v |-> v]

is_base_digit(c, base) ==
    IF ~isalnum(c) THEN [ok |-> FALSE, v |-> 0]
    ELSE digit_below(IF isdigit(c) THEN IndexOf(DecDigits, c) - 1
                     ELSE 10 + (IndexOf(UpperLetters, toupper(c)) - 1), base)

\* an accumulation without the overflow test: the value wraps
base_accepts_wrapping(nv, base, v, d) == TRUE

\* the overflow test of the accumulation: TRUE when nv is accepted
base_accepts(nv, base, v, d) == DivMod(nv, base) = [q |-> v, r |-> d]

\* the digit loop from index i with the value v accumulated so far: where it
\* stops, the accumulated value, whether it overflowed
RECURSIVE base_digits(_, _, _, _, _, _)

\* the loop body for the digit d: nv is (v * 10) + d
base_accumulate(buf, p, base, hasValue, i, v, d, nv) ==
    IF ~base_accepts(nv, base, v, d) THEN [i |-> i, v |-> v, overflow |-> TRUE]
    ELSE base_digits(buf, p, base, hasValue, i + 1, nv)

\* the loop test on dg = is_base_digit(ptr[i], base, &d)
base_digit(buf, p, base, hasValue, i, v, dg) ==
    IF ~dg.ok THEN [i |-> i, v |-> v, overflow |-> FALSE]
    ELSE IF hasValue
         THEN base_accumulate(buf, p, base, hasValue, i, v, dg.v, MulAdd(v, 10, dg.v))
         ELSE base_digits(buf, p, base, hasValue, i + 1, v)

base_digits(buf, p, base, hasValue, i, v) ==
    base_digit(buf, p, base, hasValue, i, v, is_base_digit(At(buf, p + i), base))

base_fail(d) == [ret |-> 0, value |-> Zero(UInt64Bits), diags |-> d]

\* after the closing quote: the whitespace warning, *value = v, return i
base_return(s, buf, p, quoted, i, v) ==
    [ret |-> i, value |-> v,
     diags |-> IF ~quoted /\ ~sparse_sequential(s, buf, p, i)
               THEN sparse_warning("Unexpected whitespace in literal")
               ELSE NoDiags]

\* after the digit loop run
base_close(s, buf, p, quoted, run) ==
    IF run.overflow THEN base_fail(sparse_warning("Literal value exceeds 64-bit size"))
    ELSE IF quoted /\ At(buf, p + run.i) # At(buf, p)
    THEN base_fail(sparse_error("Invalid character in BOZ literal"))
    ELSE base_return(s, buf, p, quoted, IF quoted THEN run.i + 1 ELSE run.i, run.v)

\* hasValue: value is not NULL
parse_literal__base(s, buf, p, base, quoted, hasValue) ==
    IF quoted /\ At(buf, p) # DQ /\ At(buf, p) # SQ THEN base_fail(NoDiags)
    ELSE IF ~is_base_digit(At(buf, p + (IF quoted THEN 1 ELSE 0)), base).ok
    THEN base_fail(IF quoted THEN sparse_error("Valid digit expected in BOZ literal")
                   ELSE NoDiags)
    ELSE base_close(s, buf, p, quoted,
                    base_digits(buf, p, base, hasValue, IF quoted THEN 1 ELSE 0,
                                Zero(UInt64Bits)))

\* the test of the narrowing cast: TRUE when u fits an unsigned
unsigned_fits(u) == Extend(Truncate(u, UnsignedBits), UInt64Bits) = u

\* parse_unsigned once parse_literal__base has returned b
unsigned_return(b, value0) ==
    IF b.ret = 0 THEN [ret |-> 0, value |-> value0, diags |-> b.diags]
    ELSE IF ~unsigned_fits(b.value) THEN [ret |-> 0, value |-> value0, diags |-> b.diags]
    ELSE [ret |-> b.ret, value |-> Truncate(b.value, UnsignedBits), diags |-> b.diags]

\* value0 is *value before the call
parse_unsigned(s, buf, p, value0) ==
    unsigned_return(parse_literal__base(s, buf, p, 10, FALSE, TRUE), value0)

----------------------------------------------------------------------------
(* parse_literal_t.  The C type is a tagged union; the model keeps one field
   per member and a recognizer writes only the members the code writes.    *)

Indeterminate == "indeterminate"
\* the local `l` of parse_literal after `l.kind = 0`
LocalLiteral ==
    [type |-> Indeterminate, kind |-> Unsigned(0), number |-> Indeterminate,
     string |-> Indeterminate, logical |-> Indeterminate, complex |-> Indeterminate]
\* an uninitialised local parse_literal_t (the two of parse_literal__complex)
UninitLiteral == [LocalLiteral EXCEPT !.kind = Indeterminate]

----------------------------------------------------------------------------
(* Binary, octal, hex *)

\* the slice a radix recognizer stores, for the digit run parse_literal__base
\* measured from &ptr[1] with length len (quotes included in len)
boz_slice(p, len) == str_ref(p + 1, len)

\* a radix recognizer once parse_literal__base has returned b
boz_return(p, literal0, type, b) ==
    IF b.ret = 0 THEN [ret |-> 0, literal |-> literal0, diags |-> b.diags]
    ELSE [ret |-> b.ret + 1,
          literal |-> [literal0 EXCEPT !.number = boz_slice(p, b.ret), !.type = type],
          diags |-> b.diags]

parse_literal__binary(s, buf, p, literal0) ==
    IF toupper(At(buf, p)) # "B" THEN [ret |-> 0, literal |-> literal0, diags |-> NoDiags]
    ELSE boz_return(p, literal0, "BINARY", parse_literal__base(s, buf, p + 1, 2, TRUE, FALSE))

parse_literal__octal(s, buf, p, literal0) ==
    IF toupper(At(buf, p)) # "O" THEN [ret |-> 0, literal |-> literal0, diags |-> NoDiags]
    ELSE boz_return(p, literal0, "OCTAL", parse_literal__base(s, buf, p + 1, 8, TRUE, FALSE))

parse_literal__hex(s, buf, p, literal0) ==
    IF (toupper(At(buf, p)) # "X") /\ (toupper(At(buf, p)) # "Z")
    THEN [ret |-> 0, literal |-> literal0, diags |-> NoDiags]
    ELSE boz_return(p, literal0, "HEX", parse_literal__base(s, buf, p + 1, 16, TRUE, FALSE))

----------------------------------------------------------------------------
(* Hollerith *)

\* the copy loop: i is the cursor index, j the parent index, bytes the part
\* of the buffer written so far
RECURSIVE holl_copy(_, _, _, _, _, _, _, _)
holl_copy(buf, p, pbuf, pp, i, j, holl_len, bytes) ==
    IF ~(Len(bytes) < holl_len) THEN [i |-> i, bytes |-> bytes]
    ELSE IF At(pbuf, pp + j) = CR \/ At(pbuf, pp + j) = LF \/ At(pbuf, pp + j) = NUL
    THEN [i |-> i, bytes |-> bytes]
    ELSE holl_copy(buf, p, pbuf, pp,
                   IF At(buf, p + i) = At(pbuf, pp + j) THEN i + 1 ELSE i,
                   j + 1, holl_len, Append(bytes, At(pbuf, pp + j)))

\* a buffer left as the copy loop wrote it, without the padding
holl_pad_none(bytes, holl_len) == bytes

\* the rest of the buffer, filled with spaces
holl_pad(bytes, holl_len) == bytes \o [k \in 1..(holl_len - Len(bytes)) |-> " "]

holl_fail(str, d) == [ret |-> 0, string |-> str, diags |-> d, allocd |-> {}]

\* after the copy loop cp
holl_return(str, holl_len, d, cp) ==
    [ret |-> cp.i, string |-> [str EXCEPT !.bytes = holl_pad(cp.bytes, holl_len)],
     diags |-> d, allocd |-> {str.base}]

\* after *string = string_create(NULL, holl_len)
holl_created(buf, p, pptr, i, holl_len, d, str) ==
    IF string_empty(str) THEN holl_fail(str, d)
    ELSE holl_return(str, holl_len, d,
                     holl_copy(buf, p, pptr.buf, pptr.p, i + 1, 1, holl_len, <<>>))

\* after pptr = sparse_parent_pointer(src, &ptr[i])
holl_parent(buf, p, string0, ok, id, u, pptr) ==
    IF pptr.null THEN holl_fail(string0, u.diags)
    ELSE holl_created(buf, p, pptr, u.ret, ToNat(u.value), u.diags,
                      string_create(ToNat(u.value), ok, id))

\* after i = parse_unsigned(src, ptr, &holl_len)
holl_count(s, buf, p, string0, ok, id, u) ==
    IF u.ret = 0 THEN holl_fail(string0, u.diags)
    ELSE IF toupper(At(buf, p + u.ret)) # "H" THEN holl_fail(string0, u.diags)
    ELSE holl_parent(buf, p, string0, ok, id, u, sparse_parent_pointer(s, buf, p + u.ret))

\* string0 is *string before the call; ok and id are the allocator's answer
parse_hollerith(s, buf, p, string0, ok, id) ==
    holl_count(s, buf, p, string0, ok, id, parse_unsigned(s, buf, p, Unsigned(0)))

\* parse_literal__hollerith once parse_hollerith has returned h
literal_string(literal0, type, h) ==
    [ret |-> h.ret, diags |-> h.diags, allocd |-> h.allocd,
     literal |-> IF h.ret = 0 THEN [literal0 EXCEPT !.string = h.string]
                 ELSE [literal0 EXCEPT !.string = h.string, !.type = type]]

parse_literal__hollerith(s, buf, p, literal0, ok, id) ==
    literal_string(literal0, "HOLLERITH",
                   parse_hollerith(s, buf, p, literal0.string, ok, id))

----------------------------------------------------------------------------
(* Character *)

\* the cursor scan for the closing quote, from index i on; fault: the scan
\* left the modelled memory
RECURSIVE char_cursor_scan(_, _, _, _, _)
char_cursor_scan(buf, p, quote, i, is_escaped) ==
    IF At(buf, p + i) = OOB THEN [i |-> i, fault |-> TRUE]
    ELSE IF (At(buf, p + i) # NUL) /\ ((At(buf, p + i) # quote) \/ is_escaped)
    THEN char_cursor_scan(buf, p, quote, i + 1, ~is_escaped /\ (At(buf, p + i) = BSL))
    ELSE [i |-> i, fault |-> FALSE]

\* the length pass over the parent text: where it stops (str_end), the
\* decoded length, whether it met a line terminator
RECURSIVE char_length(_, _, _, _, _, _)
char_length(pbuf, pp, quote, j, is_escaped, str_len) ==
    IF At(pbuf, pp + j) = OOB
    THEN [j |-> j, len |-> str_len, eol |-> FALSE, fault |-> TRUE]
    ELSE IF ~((At(pbuf, pp + j) # quote) \/ is_escaped)
    THEN [j |-> j, len |-> str_len, eol |-> FALSE, fault |-> FALSE]
    ELSE IF At(pbuf, pp + j) = CR \/ At(pbuf, pp + j) = LF
    THEN [j |-> j, len |-> str_len, eol |-> TRUE, fault |-> FALSE]
    ELSE IF (At(pbuf, pp + j) = BSL) /\ ~is_escaped
    THEN char_length(pbuf, pp, quote, j + 1, TRUE, str_len)
    ELSE char_length(pbuf, pp, quote, j + 1, FALSE, str_len + 1)

EscapeLetters == <<"n", "r", "t", "b", "f", "v", "0", SQ, DQ, BSL>>
EscapeValues == <<LF, CR, "TAB", "BS", "FF", "VT", NUL, SQ, DQ, BSL>>
unescape(c) ==
    IF c \in Range(EscapeLetters) THEN EscapeValues[IndexOf(EscapeLetters, c)] ELSE c

\* the byte b and the diagnostics d put before what the rest of the pass wrote
char_put(b, d, rest) == [bytes |-> <<b>> \o rest.bytes, diags |-> d \o rest.diags]

\* the decode pass: the bytes written and the warnings
RECURSIVE char_decode(_, _, _, _, _)
char_decode(pbuf, pp, j, str_end, is_escaped) ==
    IF ~(j < str_end) THEN [bytes |-> <<>>, diags |-> NoDiags]
    ELSE IF is_escaped
    THEN char_put(unescape(At(pbuf, pp + j)),
                  IF At(pbuf, pp + j) \in Range(EscapeLetters) THEN NoDiags
                  ELSE sparse_warning("Unknown escape sequence in string, ignoring"),
                  char_decode(pbuf, pp, j + 1, str_end, FALSE))
    ELSE IF At(pbuf, pp + j) = BSL THEN char_decode(pbuf, pp, j + 1, str_end, TRUE)
    ELSE char_put(At(pbuf, pp + j), NoDiags, char_decode(pbuf, pp, j + 1, str_end, FALSE))

\* reads is the greatest index read; fault: the call read outside the
\* modelled memory
char_result(r, str, d, a, rd, f) ==
    [ret |-> r, string |-> str, diags |-> d, allocd |-> a, reads |-> rd, fault |-> f]

\* after the decode pass dec
char_return(i, str, rd, dec) ==
    char_result(i, [str EXCEPT !.bytes = dec.bytes], dec.diags, {str.base}, rd, FALSE)

\* after *string = string_create(NULL, str_len)
char_created(pptr, i, str_end, rd, str) ==
    IF string_empty(str) THEN char_result(0, str, NoDiags, {}, rd, FALSE)
    ELSE char_return(i, str, rd, char_decode(pptr.buf, pptr.p, 1, str_end, FALSE))

\* after the length pass
char_measured(p, string0, ok, id, pptr, i, pass, rd) ==
    IF pass.fault THEN char_result(0, string0, NoDiags, {}, rd, TRUE)
    ELSE IF pass.eol
    THEN char_result(0, string0,
                     sparse_error("Unexpected end of line in character constant"),
                     {}, rd, FALSE)
    ELSE char_created(pptr, i, pass.j, rd, string_create(pass.len, ok, id))

\* after the cursor scan cur: the test of the closing quote and i++
char_scanned(buf, p, quote, string0, ok, id, pptr, cur, pass) ==
    IF cur.fault THEN char_result(0, string0, NoDiags, {}, p + cur.i, TRUE)
    ELSE IF At(buf, p + cur.i) # quote
    THEN char_result(0, string0, sparse_error("Unterminated string"), {}, p + cur.i, FALSE)
    ELSE char_measured(p, string0, ok, id, pptr, cur.i + 1, pass,
                       Max(p + cur.i, pptr.p + pass.j))

\* after pptr = sparse_parent_pointer(src, &ptr[i]); `i += 1` and then the
\* `i++` of the for statement: the cursor scan starts at 2
char_parent(buf, p, quote, string0, ok, id, pptr) ==
    IF pptr.null THEN char_result(0, string0, NoDiags, {}, p, FALSE)
    ELSE char_scanned(buf, p, quote, string0, ok, id, pptr,
                      char_cursor_scan(buf, p, quote, (0 + 1) + 1, FALSE),
                      char_length(pptr.buf, pptr.p, quote, 1, FALSE, 0))

\* string0 is *string before the call; ok and id are the allocator's answer
parse_character(s, buf, p, string0, ok, id) ==
    IF (At(buf, p) # DQ) /\ (At(buf, p) # SQ)
    THEN char_result(0, string0, NoDiags, {}, p, FALSE)
    ELSE char_parent(buf, p, At(buf, p), string0, ok, id, sparse_parent_pointer(s, buf, p))

parse_literal__character(s, buf, p, literal0, ok, id) ==
    literal_string(literal0, "CHARACTER",
                   parse_character(s, buf, p, literal0.string, ok, id))

----------------------------------------------------------------------------
(* Logical *)

\* parse_keyword: the length of the keyword if the text at (buf, q) spells it
\* in either case, else 0
parse_keyword(buf, q, keyword) ==
    IF \A k \in 1..Len(keyword) : toupper(At(buf, q + k - 1)) = keyword[k]
    THEN Len(keyword) ELSE 0

PARSE_KEYWORD_TRUE == <<"T", "R", "U", "E">>
PARSE_KEYWORD_FALSE == <<"F", "A", "L", "S", "E">>

\* after the keyword of length len; v: it was TRUE
logical_keyword(buf, p, literal0, len, v) ==
    IF len = 0 THEN [ret |-> 0, literal |-> literal0, diags |-> NoDiags]
    ELSE IF At(buf, p + 1 + len) # "." THEN [ret |-> 0, literal |-> literal0, diags |-> NoDiags]
    ELSE [ret |-> 1 + len + 1,
          literal |-> [literal0 EXCEPT !.logical = v, !.type = "LOGICAL"],
          diags |-> NoDiags]

parse_literal__logical(s, buf, p, literal0) ==
    IF At(buf, p) # "." THEN [ret |-> 0, literal |-> literal0, diags |-> NoDiags]
    ELSE IF parse_keyword(buf, p + 1, PARSE_KEYWORD_TRUE) > 0
    THEN logical_keyword(buf, p, literal0, parse_keyword(buf, p + 1, PARSE_KEYWORD_TRUE), TRUE)
    ELSE logical_keyword(buf, p, literal0, parse_keyword(buf, p + 1, PARSE_KEYWORD_FALSE), FALSE)

----------------------------------------------------------------------------
(* Number and complex *)

\* for (; isdigit(ptr[i]); i++);
RECURSIVE skip_digits(_, _)
skip_digits(buf, q) == IF isdigit(At(buf, q)) THEN skip_digits(buf, q + 1) ELSE q

IsSign(c) == (c = "-") \/ (c = "+")

number_fail(literal0, d) == [ret |-> 0, literal |-> literal0, diags |-> d]

\* the end: the two warnings and the literal, for the length i and the kind k
number_return(s, buf, p, literal0, i, k, kind_ambiguous, d) ==
    [ret |-> i,
     literal |-> [literal0 EXCEPT !.type = "NUMBER", !.kind = k, !.number = str_ref(p, i)],
     diags |-> d \o (IF ~sparse_sequential(s, buf, p, i)
                     THEN sparse_warning("Unexpected whitespace in literal number")
                     ELSE NoDiags)
                 \o (IF kind_ambiguous
                     THEN sparse_warning("Kind is ambiguous, ignoring exponent kind")
                     ELSE NoDiags)]

\* after parse_unsigned has returned u for the kind at i + 1; ok is the kind
\* the exponent implied
number_suffix(s, buf, p, literal0, i, ok, u) ==
    IF u.ret = 0 THEN number_fail(literal0, u.diags)
    ELSE number_return(s, buf, p, literal0, i + 1 + u.ret, u.value,
                       (ok # Unsigned(0)) /\ (u.value # ok), u.diags)

\* after the exponent: the test of the parts and the kind suffix at i
number_kind(s, buf, p, literal0, had_int, had_fract, i, k) ==
    IF ~had_fract /\ ~had_int THEN number_fail(literal0, NoDiags)
    ELSE IF At(buf, p + i) = "_"
    THEN number_suffix(s, buf, p, literal0, i, k, parse_unsigned(s, buf, p + i + 1, k))
    ELSE number_return(s, buf, p, literal0, i, k, FALSE, NoDiags)

\* the test that decides whether the exponent found at i (digits expected
\* at j, after the optional sign) is kept
exponent_kept(buf, p, i, j) == isdigit(At(buf, p + i))

\* the exponent letter at i, its digits expected at j
number_exponent(s, buf, p, literal0, had_int, had_fract, i, j) ==
    IF ((toupper(At(buf, p + i)) = "E") \/ (toupper(At(buf, p + i)) = "D"))
       /\ exponent_kept(buf, p, i, j)
    THEN number_kind(s, buf, p, literal0, had_int, had_fract, skip_digits(buf, p + j) - p,
                     IF At(buf, p + i) = "D" THEN Unsigned(8) ELSE Unsigned(0))
    ELSE number_kind(s, buf, p, literal0, had_int, had_fract, i, Unsigned(0))

\* after the fractional part, which ends at i
number_fract(s, buf, p, literal0, had_int, had_fract, i) ==
    number_exponent(s, buf, p, literal0, had_int, had_fract, i,
                    IF IsSign(At(buf, p + i + 1)) THEN i + 2 ELSE i + 1)

\* a fractional part that counts without a digit on either side of the point
number_had_fract_any(buf, p, i, had_int) == TRUE

\* had_fract, for the point at i - 1
number_had_fract(buf, p, i, had_int) == had_int \/ isdigit(At(buf, p + i))

\* after the integer part, which ends at i
number_int(s, buf, p, literal0, had_int, i) ==
    IF At(buf, p + i) = "."
    THEN number_fract(s, buf, p, literal0, had_int,
                      number_had_fract(buf, p, i + 1, had_int),
                      skip_digits(buf, p + i + 1) - p)
    ELSE number_fract(s, buf, p, literal0, had_int, FALSE, i)

\* after the sign, which ends at i
number_sign(s, buf, p, literal0, i) ==
    number_int(s, buf, p, literal0, isdigit(At(buf, p + i)), skip_digits(buf, p + i) - p)

parse_literal__number(s, buf, p, literal0) ==
    number_sign(s, buf, p, literal0, IF IsSign(At(buf, p)) THEN 1 ELSE 0)

complex_fail(literal0, d) == [ret |-> 0, literal |-> literal0, diags |-> d]

\* after the right part, which starts at i
complex_right(buf, p, literal0, i, left, right) ==
    IF right.ret = 0 THEN complex_fail(literal0, left.diags \o right.diags)
    ELSE IF At(buf, p + i + right.ret) # ")"
    THEN complex_fail(literal0, left.diags \o right.diags)
    ELSE [ret |-> i + right.ret + 1,
          literal |-> [literal0 EXCEPT !.type = "COMPLEX",
                          !.complex = [left_number |-> left.literal.number,
                                       right_number |-> right.literal.number]],
          diags |-> left.diags \o right.diags]

\* after the left part, which starts at 1
complex_left(s, buf, p, literal0, left) ==
    IF left.ret = 0 THEN complex_fail(literal0, left.diags)
    ELSE IF At(buf, p + 1 + left.ret) # "," THEN complex_fail(literal0, left.diags)
    ELSE complex_right(buf, p, literal0, 1 + left.ret + 1, left,
                       parse_literal__number(s, buf, p + 1 + left.ret + 1, UninitLiteral))

parse_literal__complex(s, buf, p, literal0) ==
    IF At(buf, p) # "(" THEN complex_fail(literal0, NoDiags)
    ELSE complex_left(s, buf, p, literal0,
                      parse_literal__number(s, buf, p + 1, UninitLiteral))

----------------------------------------------------------------------------
(* The dispatcher, cleanup and clone *)

Recognizers ==
    <<"character", "hollerith", "complex", "binary", "octal", "hex", "logical", "number">>

\* a recognizer that allocates nothing
plain(r) == [ret |-> r.ret, literal |-> r.literal, diags |-> r.diags, allocd |-> {}]

\* one sub-recognizer, by its place in the priority list
recognize(name, s, buf, p, literal0, ok, id) ==
    CASE name = "character" -> parse_literal__character(s, buf, p, literal0, ok, id)
      [] name = "hollerith" -> parse_literal__hollerith(s, buf, p, literal0, ok, id)
      [] name = "complex" -> plain(parse_literal__complex(s, buf, p, literal0))
      [] name = "binary" -> plain(parse_literal__binary(s, buf, p, literal0))
      [] name = "octal" -> plain(parse_literal__octal(s, buf, p, literal0))
      [] name = "hex" -> plain(parse_literal__hex(s, buf, p, literal0))
      [] name = "logical" -> plain(parse_literal__logical(s, buf, p, literal0))
      [] name = "number" -> plain(parse_literal__number(s, buf, p, literal0))

\* if (len == 0) len = parse_literal__<n>(src, ptr, &l); for the n-th and later
RECURSIVE dispatch(_, _, _, _, _, _, _, _)

\* after the n-th recognizer has returned r
dispatched(n, s, buf, p, ok, id, d, r) ==
    IF r.ret # 0 THEN [r EXCEPT !.diags = d \o r.diags]
    ELSE dispatch(n + 1, s, buf, p, r.literal, ok, id, d \o r.diags)

dispatch(n, s, buf, p, l, ok, id, d) ==
    IF n > Len(Recognizers) THEN [ret |-> 0, literal |-> l, diags |-> d, allocd |-> {}]
    ELSE dispatched(n, s, buf, p, ok, id, d,
                    recognize(Recognizers[n], s, buf, p, l, ok, id))

\* if (len == 0) return 0; *literal = l;
literal_return(literal0, r) == IF r.ret = 0 THEN [r EXCEPT !.literal = literal0] ELSE r

\* literal0 is *literal before the call
parse_literal(s, buf, p, literal0, ok, id) ==
    literal_return(literal0, dispatch(1, s, buf, p, LocalLiteral, ok, id, NoDiags))

\* the buffers parse_literal_cleanup hands to string_delete
parse_literal_cleanup(literal) ==
    IF literal.type \in {"CHARACTER", "HOLLERITH"} THEN {literal.string.base} ELSE {}

\* a clone that copies the struct and not the buffer
parse_literal_clone_shallow(dst0, literal, ok, id) ==
    [ret |-> TRUE, dst |-> literal, allocd |-> {}]

\* after clone.string = string_copy(src->string)
clone_copied(dst0, literal, copy) ==
    IF string_empty(copy) THEN [ret |-> FALSE, dst |-> dst0, allocd |-> {}]
    ELSE [ret |-> TRUE, dst |-> [literal EXCEPT !.string = copy], allocd |-> {copy.base}]

\* dst0 is *dst before the call
parse_literal_clone(dst0, literal, ok, id) ==
    IF literal.type \in {"CHARACTER", "HOLLERITH"}
    THEN clone_copied(dst0, literal, string_copy(literal.string, ok, id))
    ELSE [ret |-> TRUE, dst |-> literal, allocd |-> {}]

----------------------------------------------------------------------------
(* The state machine: one call of one operation on one input *)

\* all texts over the alphabet A of length at most n
Strings(A, n) == UNION {[1..k -> A] : k \in 0..n}

Sources == [contiguous : BOOLEAN, parent : BOOLEAN]
\* the cursor text is the original text, unbroken
PlainSource == [contiguous |-> TRUE, parent |-> TRUE]

\* a string the caller's *string held before the call (buffer 1)
PriorString == [base |-> 1, size |-> 1, bytes |-> <<"p">>]
PriorUnsigned == Unsigned(7)
PriorLiteral == [LocalLiteral EXCEPT !.type = "LOGICAL", !.logical = TRUE]

Buffers(o) == IF o = PriorString THEN {1} ELSE {}

InitWith(T, S, A, O) ==
    /\ text \in T
    /\ src \in S
    /\ alloc \in A
    /\ out0 \in O
    /\ out = out0
    /\ pc = "ready"
    /\ call = "none"
    /\ ret = 0
    /\ diags = NoDiags
    /\ reads = -1
    /\ rets = <<>>
    /\ live = Buffers(out0)
    /\ allocs = Cardinality(Buffers(out0))
    /\ frees = [b \in 1..Cardinality(Buffers(out0)) |-> 0]
    /\ lits = <<>>

\* what a call hands back: its return value, its output argument, the
\* diagnostics, the greatest index read (where tracked), the buffers allocated
of_value(r) ==
    [ret |-> r.ret, out |-> r.value, diags |-> r.diags, reads |-> -1, allocd |-> {}]
of_string(r) ==
    [ret |-> r.ret, out |-> r.string, diags |-> r.diags, reads |-> -1, allocd |-> r.allocd]
of_character(r) ==
    [ret |-> r.ret, out |-> r.string, diags |-> r.diags, reads |-> r.reads,
     allocd |-> r.allocd]
of_literal(r) ==
    [ret |-> r.ret, out |-> r.literal, diags |-> r.diags, reads |-> -1, allocd |-> {}]
of_owner(r) ==
    [ret |-> r.ret, out |-> r.literal, diags |-> r.diags, reads |-> -1, allocd |-> r.allocd]

\* the caller's side of a call that returned c, with the allocator's books
Returned(name, c) ==
    /\ pc' = "done"
    /\ call' = name
    /\ ret' = c.ret
    /\ out' = c.out
    /\ diags' = c.diags
    /\ reads' = c.reads
    /\ live' = live \cup c.allocd
    /\ allocs' = allocs + Cardinality(c.allocd)
    /\ frees' = frees \o [b \in 1..Cardinality(c.allocd) |-> 0]
    /\ UNCHANGED <<text, src, alloc, out0, rets>>

CallUnsigned ==
    /\ pc = "ready"
    /\ Returned("parse_unsigned", of_value(parse_unsigned(src, text, 0, out)))
    /\ UNCHANGED lits

----------------------------------------------------------------------------
(* parse_unsigned on runs of decimal digits around 2^32 and 2^64 *)

MaxExtra == 2

UnsignedStems ==
    {<<"1", "8", "4", "4", "6", "7", "4", "4", "0", "7", "3", "7", "0", "9", "5", "5", "1", "6", "1", "5">>,
     <<"4", "2", "9", "4", "9", "6", "7", "2", "9", "5", "9", "9", "9", "9", "9", "9", "9", "9", "9", "9">>,
     <<"9", "9", "9", "9", "9", "9", "9", "9", "9", "9", "9", "9", "9", "9", "9", "9", "9", "9", "9", "9">>,
     <<"0", "0", "0", "0", "0", "0", "0", "0", "0", "0", "0", "0", "0", "0", "0", "0", "0", "0", "0", "0">>}

UnsignedTexts ==
    {SubSeq(st, 1, n) \o ex \o rest :
        st \in UnsignedStems, n \in {0, 1, 9, 10, 18, 19, 20},
        ex \in Strings({"0", "5", "6"}, MaxExtra),
        rest \in {<<NUL>>, <<"H", "a", NUL>>}}

InitUnsigned ==
    InitWith(UnsignedTexts, [contiguous : BOOLEAN, parent : {TRUE}], {TRUE}, {PriorUnsigned})
NextUnsigned == CallUnsigned
SpecUnsigned == InitUnsigned /\ [][NextUnsigned]_vars

\* the leading run of decimal digits of a text
DigitRun(buf) == SubSeq(buf, 1, skip_digits(buf, 0))

\* the mathematical value of a run of decimal digits, in 96 bits (28 digits fit)
WideBits == 64 + 32
RECURSIVE MathValueFrom(_, _, _)
MathValueFrom(ds, k, acc) ==
    IF k > Len(ds) THEN acc
    ELSE MathValueFrom(ds, k + 1, MulAdd(acc, 10, IndexOf(DecDigits, ds[k]) - 1))
MathValue(ds) == MathValueFrom(ds, 1, Zero(WideBits))

\* m > 2^bits - 1
Exceeds(m, bits) == \E k \in (Limbs(bits) + 1)..Len(m) : m[k] # 0

Emitted(d) == \E k \in 1..Len(diags) : <<diags[k]>> = d

\* C6: parse_unsigned returns the digit count and stores exactly the value of
\* the digit run, or returns 0 and stores nothing; a run whose value exceeds
\* 2^64 - 1 is rejected with the overflow warning, never wrapped or truncated.
C6_OverflowIsRejection ==
    (call = "parse_unsigned") =>
        LET m == MathValue(DigitRun(text)) IN
        /\ (ret # 0) => /\ ret = Len(DigitRun(text))
                        /\ Extend(out, WideBits) = m
                        /\ ~Exceeds(m, UnsignedBits)
        /\ (ret = 0) => (out = out0)
        /\ Exceeds(m, UInt64Bits) =>
              /\ ret = 0
              /\ Emitted(sparse_warning("Literal value exceeds 64-bit size"))

\* a run of 20 digits or more whose value exceeds 2^64 - 1 was rejected
C6_Witness ==
    /\ call = "parse_unsigned"
    /\ Exceeds(MathValue(DigitRun(text)), UInt64Bits)
    /\ ret = 0
    /\ out = out0

----------------------------------------------------------------------------
(* The numeric, complex and radix recognizers, and parse_literal *)

CallNumber ==
    /\ pc = "ready"
    /\ Returned("parse_literal__number", of_literal(parse_literal__number(src, text, 0, out)))
    /\ UNCHANGED lits

CallComplex ==
    /\ pc = "ready"
    /\ Returned("parse_literal__complex", of_literal(parse_literal__complex(src, text, 0, out)))
    /\ UNCHANGED lits

CallBinary ==
    /\ pc = "ready"
    /\ Returned("parse_literal__binary", of_literal(parse_literal__binary(src, text, 0, out)))
    /\ UNCHANGED lits

CallOctal ==
    /\ pc = "ready"
    /\ Returned("parse_literal__octal", of_literal(parse_literal__octal(src, text, 0, out)))
    /\ UNCHANGED lits

CallHex ==
    /\ pc = "ready"
    /\ Returned("parse_literal__hex", of_literal(parse_literal__hex(src, text, 0, out)))
    /\ UNCHANGED lits

\* the caller holds the literal a successful call returned
Holds(c) ==
    lits' = IF c.ret = 0 THEN lits ELSE Append(lits, [literal |-> c.out, released |-> FALSE])

LiteralReturned(c) == Returned("parse_literal", c) /\ Holds(c)

CallLiteral ==
    /\ pc = "ready"
    /\ LiteralReturned(of_owner(parse_literal(src, text, 0, out, alloc, allocs + 1)))

MaxRun == 2

Run(c, n) == [k \in 1..n |-> c]

U64MaxPlus1 == <<"1", "8", "4", "4", "6", "7", "4", "4", "0", "7", "3", "7", "0", "9", "5", "5", "1", "6", "1", "6">>
U32MaxPlus1 == <<"4", "2", "9", "4", "9", "6", "7", "2", "9", "6">>

ExponentParts ==
    {<<>>, <<"D", "0">>, <<"E", "0">>, <<"d", "0">>, <<"D", "+", "1">>,
     <<"D", "1", "2">>, <<"E">>, <<"D", "-">>}
KindParts ==
    {<<>>, <<"_", "4">>, <<"_", "8">>, <<"_", "1", "6">>, <<"_">>, <<"_", "x">>,
     <<"_">> \o U64MaxPlus1, <<"_">> \o U32MaxPlus1}

NumberTexts ==
    {sg \o Run("1", n) \o fr \o ex \o kd \o <<NUL>> :
        sg \in {<<>>, <<"-">>}, n \in 0..MaxRun,
        fr \in {<<>>} \cup {<<".">> \o Run("0", m) : m \in 0..MaxRun},
        ex \in ExponentParts, kd \in KindParts}

ComplexParts ==
    {<<>>, <<"1">>, <<"1", ".", "0">>, <<"-", ".", "5", "E", "1">>, <<"1", "_", "4">>,
     <<"1", "_">> \o U64MaxPlus1, <<"x">>}
ComplexTexts ==
    {<<"(">> \o l \o sep \o r \o cl \o <<NUL>> :
        l \in ComplexParts, sep \in {<<",">>, <<" ">>, <<>>},
        r \in ComplexParts, cl \in {<<")">>, <<>>}}

InitNumber ==
    InitWith(NumberTexts \cup ComplexTexts, [contiguous : BOOLEAN, parent : {TRUE}],
             {TRUE}, {PriorLiteral})
NextNumber == CallNumber \/ CallComplex \/ CallLiteral
SpecNumber == InitNumber /\ [][NextNumber]_vars

\* the text is <digits>.<digits>D<digits>_<k> and k fits an unsigned
DKindForm(t) ==
    LET a == skip_digits(t, 0)
        b == skip_digits(t, a + 1)
        c == skip_digits(t, b + 1)
        d == skip_digits(t, c + 1)
    IN  /\ a > 0 /\ At(t, a) = "."
        /\ b > a + 1 /\ At(t, b) = "D"
        /\ c > b + 1 /\ At(t, c) = "_"
        /\ d > c + 1 /\ At(t, d) = NUL /\ d + 1 = Len(t)
        /\ ~Exceeds(MathValue(SubSeq(t, c + 2, d)), UnsignedBits)
\* its kind suffix k, as an unsigned
DKindSuffix(t) ==
    Truncate(MathValue(SubSeq(t, skip_digits(t, skip_digits(t, skip_digits(t, 0) + 1) + 1) + 2,
                              Len(t) - 1)), UnsignedBits)

AmbiguityWarnings ==
    Cardinality({k \in 1..Len(diags) :
        <<diags[k]>> = sparse_warning("Kind is ambiguous, ignoring exponent kind")})

\* C1: the numeric recognizer and parse_literal match the whole of a text
\* <digits>.<digits>D<digits>_<k>: the consumed length and the slice are the
\* full text, the kind is k, and the ambiguity warning is emitted exactly
\* when k differs from 8.
C1_DExponentWithKind ==
    (call \in {"parse_literal__number", "parse_literal"} /\ DKindForm(text)) =>
        /\ ret = Len(text) - 1
        /\ out.type = "NUMBER"
        /\ out.number = str_ref(0, Len(text) - 1)
        /\ out.kind = DKindSuffix(text)
        /\ AmbiguityWarnings = (IF DKindSuffix(text) # Unsigned(8) THEN 1 ELSE 0)

\* C5: a complex recognizer that returns 0 has emitted no diagnostic and has
\* not written the output literal (stated for unbroken text, where no
\* whitespace warning can arise).
C5_ComplexNonMatchIsSilent ==
    (call = "parse_literal__complex" /\ ret = 0 /\ src.contiguous) =>
        /\ diags = NoDiags
        /\ out = out0

----------------------------------------------------------------------------
(* The radix recognizers on prefix, quote, digits, quote *)

MaxDigits == 2

RadixTexts ==
    {<<pre>> \o op \o ds \o cl \o <<NUL>> :
        pre \in {"B", "b", "O", "o", "X", "x", "Z", "z", "Q"},
        op \in {<<SQ>>, <<DQ>>, <<>>},
        ds \in Strings({"0", "1", "7", "a", "F", "g"}, MaxDigits),
        cl \in {<<SQ>>, <<DQ>>, <<>>}}

InitRadix == InitWith(RadixTexts, {PlainSource}, {TRUE}, {PriorLiteral})
NextRadix == CallBinary \/ CallOctal \/ CallHex
SpecRadix == InitRadix /\ [][NextRadix]_vars

RadixOf(name) ==
    CASE name = "parse_literal__binary" -> [base |-> 2, letters |-> {"B"}, type |-> "BINARY"]
      [] name = "parse_literal__octal" -> [base |-> 8, letters |-> {"O"}, type |-> "OCTAL"]
      [] name = "parse_literal__hex" -> [base |-> 16, letters |-> {"X", "Z"}, type |-> "HEX"]

\* the text is prefix, quote q, a non-empty run s of digits of the radix, q
RadixForm(t, rx) ==
    /\ Len(t) >= 5
    /\ toupper(t[1]) \in rx.letters
    /\ t[2] \in {SQ, DQ}
    /\ t[Len(t) - 1] = t[2]
    /\ t[Len(t)] = NUL
    /\ \A k \in 3..(Len(t) - 2) : is_base_digit(t[k], rx.base).ok

\* C2: a radix recognizer applied to prefix+q+s+q succeeds, consumes
\* len(s) + 3, tags the result with its kind and stores the slice s: it starts
\* at the first digit and has length len(s).
C2_RadixSliceIsDigits ==
    (call \in {"parse_literal__binary", "parse_literal__octal", "parse_literal__hex"}
        /\ RadixForm(text, RadixOf(call))) =>
        LET n == Len(text) - 4 IN
        /\ ret = n + 3
        /\ out.type = RadixOf(call).type
        /\ out.number = str_ref(2, n)

----------------------------------------------------------------------------
(* parse_character on a quote, a body, the NUL and what lies after it *)

CallCharacter ==
    /\ pc = "ready"
    /\ Returned("parse_character", of_character(parse_character(src, text, 0, out, alloc, allocs + 1)))
    /\ UNCHANGED lits

MaxBody == 3
MaxTail == 1

CharacterTexts ==
    {<<q>> \o body \o <<NUL>> \o tail :
        q \in {SQ, DQ, "a"},
        body \in Strings({SQ, BSL, "a", "n", LF}, MaxBody),
        tail \in Strings({SQ, "z"}, MaxTail)}

InitCharacter ==
    InitWith(CharacterTexts, [contiguous : {TRUE}, parent : BOOLEAN], BOOLEAN,
             {STRING_EMPTY, PriorString})
NextCharacter == CallCharacter
SpecCharacter == InitCharacter /\ [][NextCharacter]_vars

\* the index of the NUL that terminates the text
NulIndex(t) == (CHOOSE k \in 1..Len(t) : t[k] = NUL /\ \A j \in 1..(k - 1) : t[j] # NUL) - 1

\* the index of the first unescaped quote after the opening quote, by the
\* backslash toggle rule applied from index k on; -1 if the NUL comes first
RECURSIVE ClosingQuote(_, _, _)
ClosingQuote(t, k, escaped) ==
    IF At(t, k) = NUL THEN -1
    ELSE IF At(t, k) = At(t, 0) /\ ~escaped THEN k
    ELSE ClosingQuote(t, k + 1, ~escaped /\ At(t, k) = BSL)

\* the number of escape pairs among the characters k .. close - 1
RECURSIVE EscapePairs(_, _, _, _)
EscapePairs(t, k, close, escaped) ==
    IF k >= close THEN 0
    ELSE (IF escaped THEN 1 ELSE 0)
         + EscapePairs(t, k + 1, close, ~escaped /\ At(t, k) = BSL)

\* a character literal without a line terminator in it
CharacterForm(t) ==
    /\ At(t, 0) \in {SQ, DQ}
    /\ ClosingQuote(t, 1, FALSE) > 0
    /\ \A k \in 1..ClosingQuote(t, 1, FALSE) : t[k] \notin {CR, LF}

\* C4: parse_character consumes a character literal up to its closing quote
\* (the first unescaped quote after the opening one) and returns a buffer of
\* the decoded length: the content characters less the escape pairs.
C4_CharacterLength ==
    (call = "parse_character" /\ CharacterForm(text) /\ src.parent /\ alloc) =>
        LET close == ClosingQuote(text, 1, FALSE) IN
        /\ ret = close + 1
        /\ out.size = (close - 1) - EscapePairs(text, 1, close, FALSE)
        /\ Len(out.bytes) = out.size

\* C10: parse_character reads no character beyond the NUL that ends the text.
C10_ReadsStopAtNul ==
    (call = "parse_character") => (reads <= NulIndex(text))

----------------------------------------------------------------------------
(* parse_hollerith on a count, a letter, content and a terminator *)

CallHollerith ==
    /\ pc = "ready"
    /\ Returned("parse_hollerith", of_string(parse_hollerith(src, text, 0, out, alloc, allocs + 1)))
    /\ UNCHANGED lits

MaxCount == 4
MaxContent == 3

CountTexts ==
    {z \o <<DecDigits[n + 1]>> : z \in {<<>>, <<"0">>}, n \in 0..Min(MaxCount, 9)}
        \cup {U32MaxPlus1}

HollerithTexts ==
    {cnt \o <<h>> \o body \o rest :
        cnt \in CountTexts, h \in {"H", "h", "x"},
        body \in Strings({"a", "H", " "}, MaxContent),
        rest \in {<<NUL>>, <<LF, NUL>>, <<CR, "a", NUL>>}}

InitHollerith ==
    InitWith(HollerithTexts, [contiguous : {TRUE}, parent : BOOLEAN], BOOLEAN,
             {STRING_EMPTY, PriorString})
NextHollerith == CallHollerith
SpecHollerith == InitHollerith /\ [][NextHollerith]_vars

\* the count n of a text <n>H..., as a 96-bit value
HollCount(t) == MathValue(DigitRun(t))

\* the text is <n>H<text> with 1 <= n and n an unsigned
HollerithForm(t) ==
    /\ Len(DigitRun(t)) > 0
    /\ toupper(At(t, Len(DigitRun(t)))) = "H"
    /\ ~Exceeds(HollCount(t), UnsignedBits)
    /\ HollCount(t) # Zero(WideBits)

\* the number of characters after the H and before the first CR, LF or NUL
RECURSIVE LineLength(_, _)
LineLength(t, k) == IF At(t, k) \in {CR, LF, NUL} THEN 0 ELSE 1 + LineLength(t, k + 1)

\* C7: for <n>H<text> with n >= 1, a parent pointer and a successful
\* allocation, parse_hollerith yields a buffer of exactly n bytes: the m
\* characters after H, m = min(n, characters before the first CR, LF or NUL),
\* then n - m spaces; it consumes (count digits) + 1 + m.
C7_HollerithPadding ==
    (call = "parse_hollerith" /\ HollerithForm(text) /\ src.parent /\ alloc) =>
        LET d == Len(DigitRun(text))
            n == ToNat(HollCount(text))
            m == Min(n, LineLength(text, d + 1))
        IN  /\ ret = d + 1 + m
            /\ out.size = n
            /\ Len(out.bytes) = n
            /\ \A k \in 1..m : out.bytes[k] = At(text, d + k)
            /\ \A k \in (m + 1)..n : out.bytes[k] = " "
            /\ out.base \in live /\ out.base # out0.base

\* a count greater than the content before the end of line: padded, not failed
C7_Witness ==
    /\ call = "parse_hollerith" /\ HollerithForm(text) /\ src.parent /\ alloc
    /\ LineLength(text, Len(DigitRun(text)) + 1) < ToNat(HollCount(text))
    /\ LineLength(text, Len(DigitRun(text)) + 1) > 0
    /\ ret > 0
    /\ out.bytes[out.size] = " "

\* C9: a public recognizer that returns 0 leaves its output argument as it
\* was and leaves no buffer it allocated live.
C9_NoMutationOnFailure ==
    (call \in {"parse_literal", "parse_character", "parse_hollerith", "parse_unsigned"}
        /\ ret = 0) =>
        /\ out = out0
        /\ live = Buffers(out0)

----------------------------------------------------------------------------
(* The eight sub-recognizers of parse_literal, each run on its own *)

\* the next recognizer of the priority list is applied to the text, with a
\* literal of its own that is released straight after
RunEach ==
    /\ pc = "ready"
    /\ Len(rets) < Len(Recognizers)
    /\ rets' = Append(rets, recognize(Recognizers[Len(rets) + 1], src, text, 0,
                                      LocalLiteral, alloc, allocs + 1).ret)
    /\ UNCHANGED <<text, src, alloc, pc, call, ret, out, out0, diags, reads,
                   live, frees, allocs, lits>>

MaxText == 3

DispatchTexts ==
    {t \o <<NUL>> : t \in Strings({"1", "H", SQ, "B", "X", ".", "_", "E", "("}, MaxText)}
        \cup {t \o <<NUL>> : t \in {<<".", "T", "R", "U", "E", ".">>,
          <<".", "F", "A", "L", "S", "E", ".">>,
          <<".", "t", "r", "u", "e", ".">>,
          <<".", "T", "R", "U", "E">>,
          <<"(", "1", ",", "1", ")">>,
          <<"(", "1", ".", "0", ",", "2", ".", "0", ")">>,
          <<"1", ".", "0", "D", "0", "_", "4">>,
          <<"1", "2", "H", "a", "b", "c">>,
          <<"B", "'", "1", "0", "1", "'">>,
          <<"O", "'", "7", "'">>,
          <<"Z", "'", "f", "F", "'">>,
          <<"'", "a", "b", "'">>,
          <<"2", "H", "(", "1", ")">>,
          <<"1", ".", "E", "5">>,
          <<"(", ".", "T", "R", "U", "E", ".", ")">>,
          <<"1", "H", "'", "a", "'">>,
          <<"B", "'", "1", "'", "H">>}}

InitDispatch == InitWith(DispatchTexts, {PlainSource}, {TRUE}, {PriorLiteral})
NextDispatch == RunEach
SpecDispatch == InitDispatch /\ [][NextDispatch]_vars

Accepting == {k \in 1..Len(rets) : rets[k] # 0}

\* C3 as claimed: at most one of the eight sub-recognizers accepts a text.
C3_AtMostOneAccepts == Cardinality(Accepting) <= 1

\* C3 as amended: two sub-recognizers accept the same text only when they are
\* the Hollerith and the numeric recognizer, and what the Hollerith
\* recognizer accepts the numeric recognizer accepts too.
C3_OnlyHollerithAndNumberOverlap ==
    /\ \A i, j \in Accepting :
          (i < j) => (Recognizers[i] = "hollerith" /\ Recognizers[j] = "number")
    /\ (Len(rets) = Len(Recognizers)) =>
          \A i \in Accepting :
              (Recognizers[i] = "hollerith") => (rets[Len(Recognizers)] # 0)

\* a text the Hollerith and the numeric recognizer both accept
C3_Witness ==
    /\ Len(rets) = Len(Recognizers)
    /\ \E i, j \in Accepting : Recognizers[i] = "hollerith" /\ Recognizers[j] = "number"

----------------------------------------------------------------------------
(* Recognize, clone, release *)

MaxLits == 3

Owning(l) == l.type \in {"CHARACTER", "HOLLERITH"}

\* the caller's side of a clone that returned r
Cloned(r) ==
    /\ call' = "parse_literal_clone"
    /\ ret' = IF r.ret THEN 1 ELSE 0
    /\ out' = r.dst
    /\ lits' = IF r.ret THEN Append(lits, [literal |-> r.dst, released |-> FALSE]) ELSE lits
    /\ live' = live \cup r.allocd
    /\ allocs' = allocs + Cardinality(r.allocd)
    /\ frees' = frees \o [b \in 1..Cardinality(r.allocd) |-> 0]

\* parse_literal_clone of a literal the caller holds into a fresh destination
Clone ==
    /\ pc = "done"
    /\ Len(lits) < MaxLits
    /\ \E k \in 1..Len(lits), ok \in BOOLEAN :
          /\ ~lits[k].released
          /\ Cloned(parse_literal_clone(UninitLiteral, lits[k].literal, ok, allocs + 1))
    /\ UNCHANGED <<text, src, alloc, pc, out0, diags, reads, rets>>

\* the caller's side of a cleanup of its k-th literal that freed bufs
Cleaned(k, bufs) ==
    /\ frees' = [b \in DOMAIN frees |-> IF b \in bufs THEN frees[b] + 1 ELSE frees[b]]
    /\ live' = live \ bufs
    /\ lits' = [lits EXCEPT ![k].released = TRUE]

\* parse_literal_cleanup of a literal the caller holds and has not released
Cleanup ==
    /\ pc = "done"
    /\ \E k \in 1..Len(lits) :
          /\ ~lits[k].released
          /\ Cleaned(k, parse_literal_cleanup(lits[k].literal))
    /\ call' = "parse_literal_cleanup"
    /\ UNCHANGED <<text, src, alloc, pc, ret, out, out0, diags, reads, rets, allocs>>

LifeTexts == {t \o <<NUL>> : t \in {<<"'", "a", "b", "'">>,
          <<"2", "H", "x", "y">>,
          <<"3", "h", "x">>,
          <<"B", "'", "1", "'">>,
          <<"1", ".", "5", "_", "4">>,
          <<".", "T", "R", "U", "E", ".">>,
          <<"(", "1", ",", "2", ")">>,
          <<"x">>}}

InitLife == InitWith(LifeTexts, {PlainSource}, BOOLEAN, {PriorLiteral})
NextLife == CallLiteral \/ Clone \/ Cleanup
SpecLife == InitLife /\ [][NextLife]_vars

Held == {k \in 1..Len(lits) : ~lits[k].released /\ Owning(lits[k].literal)}
Released == {k \in 1..Len(lits) : lits[k].released /\ Owning(lits[k].literal)}

\* C8: through recognition, clones (failing or not) and one cleanup per
\* literal, no buffer is freed twice and none leaks: the live buffers are
\* exactly those of the literals not yet released, each literal owns a buffer
\* of its own, the freed buffers are exactly those of the released owning
\* literals, a failed clone leaves its destination unwritten, and once all
\* are released every allocated buffer has been freed exactly once.
C8_FreedExactlyOnce ==
    /\ \A b \in 1..allocs : frees[b] <= 1
    /\ live = {lits[k].literal.string.base : k \in Held}
    /\ {b \in 1..allocs : frees[b] > 0} = {lits[k].literal.string.base : k \in Released}
    /\ \A i, j \in Held \cup Released :
          (i # j) => (lits[i].literal.string.base # lits[j].literal.string.base)
    /\ (call = "parse_literal_clone" /\ ret = 0) => (out = UninitLiteral)
    /\ (\A k \in 1..Len(lits) : lits[k].released) =>
          (live = {} /\ \A b \in 1..allocs : frees[b] = 1)

\* an original and a clone of an owning literal, both released
C8_Witness ==
    /\ Cardinality(Released) >= 2
    /\ \A k \in 1..Len(lits) : lits[k].released
    /\ allocs >= 2

====
